---------------------------- MODULE Spec2Model ----------------------------
(***************************************************************************)
(* Model of VerificadorAdmisibilidad (src/src/verificador_admisibilidad.py) *)
(* the six document checks, the result list they append to, and the        *)
(* aggregation of that list into a report.                                 *)
(*                                                                         *)
(* A page text is a sequence of Unicode code points.  Real numbers         *)
(* (percentages, ratios) are exact fractions [num, den].                   *)
(***************************************************************************)
EXTENDS Integers, Sequences, FiniteSets, TLC

(***************************************************************************)
(* Bounds of the model.                                                    *)
(***************************************************************************)
MaxFolios == 3
MaxCorridas == 2
MaxSimilares == 4
MaxResultados == 6

(***************************************************************************)
(* Generic helpers.                                                        *)
(***************************************************************************)
Max(a, b) == IF a >= b THEN a ELSE b
Min(a, b) == IF a <= b THEN a ELSE b

RECURSIVE Pot2(_)
Pot2(n) == IF n = 0 THEN 1 ELSE 2 * Pot2(n - 1)

MinSet(S) == CHOOSE m \in S : \A n \in S : m <= n
MaxSet(S) == CHOOSE m \in S : \A n \in S : m >= n

Rango(s) == {s[k] : k \in 1..Len(s)}

(***************************************************************************)
(* Characters: str.isspace, str.isalnum, the regex classes \s and \d, and  *)
(* case-insensitive comparison as re.IGNORECASE does it.                   *)
(***************************************************************************)
isspace(c) ==
    \/ c \in 9..13
    \/ c \in 28..32
    \/ c \in {133, 160, 5760, 8232, 8233, 8239, 8287, 12288}
    \/ c \in 8192..8202

isdigit(c) == c \in 48..57

isalpha(c) ==
    \/ c \in 65..90
    \/ c \in 97..122
    \/ c \in {170, 181, 186}
    \/ c \in 192..214
    \/ c \in 216..246
    \/ c \in 248..705
    \/ c \in 19968..40956

isalnum(c) == isalpha(c) \/ isdigit(c) \/ c \in {178, 179, 185} \/ c \in 188..190

\* the characters that match the lower-case pattern letter l under
\* re.IGNORECASE: l itself, its upper case, and the two extra forms of i
CoincideLetra(c, l) ==
    \/ c = l
    \/ l \in 97..122 /\ c = l - 32
    \/ l \in 224..254 /\ l # 247 /\ c = l - 32
    \/ l = 105 /\ c \in {304, 305}
    \/ l = 115 /\ c = 383
    \/ l = 107 /\ c = 8490

\* str.strip()
strip_de(t) ==
    LET ns == {k \in 1..Len(t) : ~isspace(t[k])}
    IN  IF ns = {} THEN <<>> ELSE SubSeq(t, MinSet(ns), MaxSet(ns))

(***************************************************************************)
(* str.encode(): UTF-8.  Code points in the surrogate range cannot be      *)
(* encoded; the texts of the model have none.                              *)
(***************************************************************************)
encode_char(c) ==
    IF c < 128 THEN <<c>>
    ELSE IF c < 2048 THEN <<192 + (c \div 64), 128 + (c % 64)>>
    ELSE IF c < 65536
         THEN <<224 + (c \div 4096), 128 + ((c \div 64) % 64), 128 + (c % 64)>>
    ELSE <<240 + (c \div 262144), 128 + ((c \div 4096) % 64),
           128 + ((c \div 64) % 64), 128 + (c % 64)>>

RECURSIVE encode_rango(_, _, _)
\* the encoding of t[lo..hi]
encode_rango(t, lo, hi) ==
    IF lo > hi THEN <<>>
    ELSE IF lo = hi THEN encode_char(t[lo])
    ELSE LET mid == (lo + hi) \div 2
         IN  encode_rango(t, lo, mid) \o encode_rango(t, mid + 1, hi)

encode(t) == encode_rango(t, 1, Len(t))

(***************************************************************************)
(* hashlib.md5(...).hexdigest(): RFC 1321.  A 32-bit word is a pair        *)
(* <<high 16 bits, low 16 bits>>.                                          *)
(***************************************************************************)
\* bit w (a power of two) of the bitwise and of x and y
AndBit(x, y, w) == ((x \div w) % 2) * ((y \div w) % 2) * w

\* bitwise and of two 16-bit numbers
And16(x, y) ==
    AndBit(x, y, 1) + AndBit(x, y, 2) + AndBit(x, y, 4) + AndBit(x, y, 8)
      + AndBit(x, y, 16) + AndBit(x, y, 32) + AndBit(x, y, 64) + AndBit(x, y, 128)
      + AndBit(x, y, 256) + AndBit(x, y, 512) + AndBit(x, y, 1024)
      + AndBit(x, y, 2048) + AndBit(x, y, 4096) + AndBit(x, y, 8192)
      + AndBit(x, y, 16384) + AndBit(x, y, 32768)

Or16(x, y) == x + y - And16(x, y)
Xor16(x, y) == x + y - 2 * And16(x, y)

WAnd(x, y) == <<And16(x[1], y[1]), And16(x[2], y[2])>>
WOr(x, y)  == <<Or16(x[1], y[1]), Or16(x[2], y[2])>>
WXor(x, y) == <<Xor16(x[1], y[1]), Xor16(x[2], y[2])>>
WNot(x)    == <<65535 - x[1], 65535 - x[2]>>

WAdd(x, y) ==
    LET lo == x[2] + y[2]
        hi == x[1] + y[1] + (lo \div 65536)
    IN  <<hi % 65536, lo % 65536>>

\* rotate left by s, 0 < s < 32
WRotl(x, s) ==
    LET y == IF s >= 16 THEN <<x[2], x[1]>> ELSE x
        r == s % 16
    IN  IF r = 0 THEN y
        ELSE <<((y[1] * Pot2(r)) % 65536) + (y[2] \div Pot2(16 - r)),
               ((y[2] * Pot2(r)) % 65536) + (y[1] \div Pot2(16 - r))>>

MD5_K == <<
 <<55146,42104>>, <<59591,46934>>, <<9248,28891>>, <<49597,52974>>,
 <<62844,4015>>, <<18311,50730>>, <<43056,17939>>, <<64838,38145>>,
 <<27008,39128>>, <<35652,63407>>, <<65535,23473>>, <<35164,55230>>,
 <<27536,4386>>, <<64920,29075>>, <<42617,17294>>, <<18868,2081>>,
 <<63006,9570>>, <<49216,45888>>, <<9822,23121>>, <<59830,51114>>,
 <<54831,4189>>, <<580,5203>>, <<55457,59009>>, <<59347,64456>>,
 <<8673,52710>>, <<49975,2006>>, <<62677,3463>>, <<17754,5357>>,
 <<43491,59653>>, <<64751,41976>>, <<26479,729>>, <<36138,19594>>,
 <<65530,14658>>, <<34673,63105>>, <<28061,24866>>, <<64997,14348>>,
 <<42174,59972>>, <<19422,53161>>, <<63163,19296>>, <<48831,48240>>,
 <<10395,32454>>, <<60065,10234>>, <<54511,12421>>, <<1160,7429>>,
 <<55764,53305>>, <<59099,39397>>, <<8098,31992>>, <<50348,22117>>,
 <<62505,8772>>, <<17194,65431>>, <<43924,9127>>, <<64659,41017>>,
 <<25947,22979>>, <<36620,52370>>, <<65519,62589>>, <<34180,24017>>,
 <<28584,32335>>, <<65068,59104>>, <<41729,17172>>, <<19976,4513>>,
 <<63315,32386>>, <<48442,62005>>, <<10967,53947>>, <<60294,54161>> >>

MD5_S == <<
 7, 12, 17, 22, 7, 12, 17, 22, 7, 12, 17, 22, 7, 12, 17, 22,
 5, 9, 14, 20, 5, 9, 14, 20, 5, 9, 14, 20, 5, 9, 14, 20,
 4, 11, 16, 23, 4, 11, 16, 23, 4, 11, 16, 23, 4, 11, 16, 23,
 6, 10, 15, 21, 6, 10, 15, 21, 6, 10, 15, 21, 6, 10, 15, 21 >>

MD5_Init == << <<26437, 8961>>, <<61389, 43913>>, <<39098, 56574>>, <<4146, 21622>> >>

\* message bytes, then 0x80, zeros up to 56 mod 64, then the bit length in
\* 8 little-endian bytes
MD5_Pad(bytes) ==
    LET n     == Len(bytes)
        zeros == (119 - (n % 64)) % 64
        bits  == n * 8
    IN  bytes \o <<128>> \o [k \in 1..zeros |-> 0]
          \o <<bits % 256, (bits \div 256) % 256, (bits \div 65536) % 256,
               (bits \div 16777216) % 256, 0, 0, 0, 0>>

\* word g (0-based) of the block that starts after offset off
MD5_Word(p, off, g) ==
    LET b == off + 4 * g
    IN  <<p[b + 3] + 256 * p[b + 4], p[b + 1] + 256 * p[b + 2]>>

\* the function of round i (0-based) on the words B, C, D
MD5_F(i, B, C, D) ==
    CASE i < 16 -> WOr(WAnd(B, C), WAnd(WNot(B), D))
      [] i < 32 -> WOr(WAnd(D, B), WAnd(WNot(D), C))
      [] i < 48 -> WXor(WXor(B, C), D)
      [] OTHER  -> WXor(C, WOr(B, WNot(D)))

\* the message word that round i uses
MD5_G(i) ==
    CASE i < 16 -> i
      [] i < 32 -> (5 * i + 1) % 16
      [] i < 48 -> (3 * i + 5) % 16
      [] OTHER  -> (7 * i) % 16

\* one round: st = <<A, B, C, D>>, round i (0-based), block at offset off
MD5_Round(st, p, off, i) ==
    <<st[4],
      WAdd(st[2],
           WRotl(WAdd(WAdd(WAdd(MD5_F(i, st[2], st[3], st[4]), st[1]),
                           MD5_K[i + 1]),
                      MD5_Word(p, off, MD5_G(i))),
                 MD5_S[i + 1])),
      st[2], st[3]>>

RECURSIVE MD5_Rounds(_, _, _, _, _)
\* rounds lo..hi in order.  The halves are evaluated one after the other
\* (Len forces the first before the second starts), which keeps the
\* evaluation shallow.
MD5_Rounds(st, p, off, lo, hi) ==
    IF lo = hi THEN MD5_Round(st, p, off, lo)
    ELSE LET mid == (lo + hi) \div 2
             izq == MD5_Rounds(st, p, off, lo, mid)
         IN  IF Len(izq) = 4 THEN MD5_Rounds(izq, p, off, mid + 1, hi) ELSE izq

\* the words of st and r added one by one
MD5_Sumar(st, r) ==
    <<WAdd(st[1], r[1]), WAdd(st[2], r[2]), WAdd(st[3], r[3]), WAdd(st[4], r[4])>>

\* the state after the block at offset off
MD5_Block(st, p, off) == MD5_Sumar(st, MD5_Rounds(st, p, off, 0, 63))

RECURSIVE MD5_Blocks(_, _, _)
MD5_Blocks(st, p, off) ==
    IF off >= Len(p) \/ Len(st) # 4 THEN st
    ELSE MD5_Blocks(MD5_Block(st, p, off), p, off + 64)

HexDigit(n) == IF n < 10 THEN 48 + n ELSE 87 + n

\* the two-digit hex of the low byte, then of the high byte, of a 16-bit half
HexHalf(h) ==
    <<HexDigit((h % 256) \div 16), HexDigit(h % 16),
      HexDigit(h \div 4096), HexDigit((h \div 256) % 16)>>

HexWord(w) == HexHalf(w[2]) \o HexHalf(w[1])

\* the digest <<A, B, C, D>> in hex, each word low byte first
HexEstado(st) ==
    HexWord(st[1]) \o HexWord(st[2]) \o HexWord(st[3]) \o HexWord(st[4])

md5_hexdigest(bytes) == HexEstado(MD5_Blocks(MD5_Init, MD5_Pad(bytes), 0))

(***************************************************************************)
(* difflib.SequenceMatcher(None, a, b).ratio().  Positions are 1-based and *)
(* a window is a[alo..ahi], b[blo..bhi], both ends included.               *)
(***************************************************************************)

\* SequenceMatcher.__chain_b: with autojunk, in a b of 200 or more elements
\* the elements that occur more than len(b) // 100 + 1 times are "popular"
\* and are left out of the index b2j
bpopular(b) ==
    IF Len(b) >= 200
    THEN {c \in Rango(b) :
            Cardinality({j \in 1..Len(b) : b[j] = c}) > (Len(b) \div 100) + 1}
    ELSE {}

\* how many positions from (i, j) on, going in direction d (1 or -1), hold
\* equal elements that are not in pop, inside the window
Tramo(a, b, pop, i, j, d, lim) ==
    LET paros == {m \in 0..(lim - 1) :
                    ~(a[i + d * m] = b[j + d * m] /\ a[i + d * m] \notin pop)}
    IN  IF paros = {} THEN lim ELSE MinSet(paros)

\* the places of the window where a run of matches through b2j begins: a[i]
\* is found at j, and a[i - 1] is not found at j - 1 inside the window
Inicios(a, b, pop, alo, ahi, blo, bhi) ==
    UNION {
      {<<i, j>> : j \in {j \in blo..bhi :
          /\ a[i] = b[j] /\ a[i] \notin pop
          /\ ~(i > alo /\ j > blo /\ a[i - 1] = b[j - 1] /\ a[i - 1] \notin pop)}}
      : i \in alo..ahi}

\* the length of the run that begins at p
Largo(a, b, pop, ahi, bhi, p) ==
    Tramo(a, b, pop, p[1], p[2], 1, Min(ahi - p[1], bhi - p[2]) + 1)

\* <<besti, bestj, bestsize>> of the longest of the runs that begin at ini;
\* of several, the first in a, and then the first in b
MejorTramo(a, b, pop, alo, ahi, blo, bhi, ini) ==
    IF ini = {} THEN <<alo, blo, 0>>
    ELSE CHOOSE m \in {<<p[1], p[2], Largo(a, b, pop, ahi, bhi, p)>> : p \in ini} :
           \A q \in ini :
               \/ m[3] > Largo(a, b, pop, ahi, bhi, q)
               \/ /\ m[3] = Largo(a, b, pop, ahi, bhi, q)
                  /\ \/ m[1] < q[1]
                     \/ m[1] = q[1] /\ m[2] <= q[2]

\* the run m extended backwards by `atras' and forwards by `delante'
\* elements
Extendido(m, atras, delante) == <<m[1] - atras, m[2] - atras, atras + m[3] + delante>>

\* as Extender, without the extension
Extender_sin_extension(a, b, alo, ahi, blo, bhi, m) == Extendido(m, 0, 0)

\* the run m extended on both sides by equal elements, popular or not
Extender(a, b, alo, ahi, blo, bhi, m) ==
    Extendido(m,
              Tramo(a, b, {}, m[1] - 1, m[2] - 1, -1, Min(m[1] - alo, m[2] - blo)),
              Tramo(a, b, {}, m[1] + m[3], m[2] + m[3], 1,
                    Min(ahi - (m[1] + m[3]), bhi - (m[2] + m[3])) + 1))

find_longest_match(a, b, pop, alo, ahi, blo, bhi) ==
    Extender(a, b, alo, ahi, blo, bhi,
             MejorTramo(a, b, pop, alo, ahi, blo, bhi,
                        Inicios(a, b, pop, alo, ahi, blo, bhi)))

RECURSIVE matching_size(_, _, _, _, _, _, _)
RECURSIVE matching_around(_, _, _, _, _, _, _, _)
\* the size of the block m = <<i, j, k>>, and of the blocks to its left and to
\* its right in the window
matching_around(a, b, pop, alo, ahi, blo, bhi, m) ==
    IF m[3] = 0 THEN 0
    ELSE m[3] + (IF alo < m[1] /\ blo < m[2]
                 THEN matching_size(a, b, pop, alo, m[1] - 1, blo, m[2] - 1) ELSE 0)
              + (IF m[1] + m[3] <= ahi /\ m[2] + m[3] <= bhi
                 THEN matching_size(a, b, pop, m[1] + m[3], ahi, m[2] + m[3], bhi)
                 ELSE 0)

\* the total size of the blocks of get_matching_blocks in a window
matching_size(a, b, pop, alo, ahi, blo, bhi) ==
    matching_around(a, b, pop, alo, ahi, blo, bhi,
                    find_longest_match(a, b, pop, alo, ahi, blo, bhi))

\* SequenceMatcher.ratio(): 2.0 * matches / (len(a) + len(b)), 1.0 when both
\* are empty
ratio(a, b) ==
    IF Len(a) + Len(b) = 0 THEN [num |-> 1, den |-> 1]
    ELSE [num |-> 2 * matching_size(a, b, bpopular(b), 1, Len(a), 1, Len(b)),
          den |-> Len(a) + Len(b)]

(***************************************************************************)
(* re.search of the four folio patterns, with re.IGNORECASE | re.MULTILINE *)
(***************************************************************************)
None == -1

\* the first position from q on that holds no space (Len(t) + 1 if none)
SaltarEspacios(t, q) ==
    LET ns == {k \in q..Len(t) : ~isspace(t[k])}
    IN  IF ns = {} THEN Len(t) + 1 ELSE MinSet(ns)

\* the last position of the run of digits that begins at q
FinDigitos(t, q) ==
    LET nd == {k \in q..Len(t) : ~isdigit(t[k])}
    IN  IF nd = {} THEN Len(t) ELSE MinSet(nd) - 1

RECURSIVE int(_, _, _)
\* int() of the digits t[lo..hi]
int(t, lo, hi) ==
    IF lo > hi THEN 0 ELSE 10 * int(t, lo, hi - 1) + (t[hi] - 48)

\* q + 1 if a colon is at q, else q
TrasDosPuntos(t, q) == IF q <= Len(t) /\ t[q] = 58 THEN q + 1 ELSE q

\* q if a digit is at q, else 0
DigitoEn(t, q) == IF q <= Len(t) /\ isdigit(t[q]) THEN q ELSE 0

\* where (\d+) begins when  etiqueta\s*:?\s*(\d+)  matches at p, 0 if it does not
GrupoEtiqueta(t, etiqueta, p) ==
    IF \/ p + Len(etiqueta) - 1 > Len(t)
       \/ \E k \in 1..Len(etiqueta) : ~CoincideLetra(t[p + k - 1], etiqueta[k])
    THEN 0
    ELSE DigitoEn(t, SaltarEspacios(t,
           TrasDosPuntos(t, SaltarEspacios(t, p + Len(etiqueta)))))

\* int(match.group(1)) for the group that begins at q; None if q is 0
EnteroEn(t, q) == IF q = 0 THEN None ELSE int(t, q, FinDigitos(t, q))

\* the group of the leftmost of the matches at the positions ps, 0 if none
GrupoDelPrimero(t, etiqueta, ps) ==
    IF ps = {} THEN 0 ELSE GrupoEtiqueta(t, etiqueta, MinSet(ps))

\* group 1 of the leftmost match of  etiqueta\s*:?\s*(\d+), or None
BuscarEtiqueta(t, etiqueta) ==
    EnteroEn(t, GrupoDelPrimero(t, etiqueta,
                  {p \in 1..Len(t) : GrupoEtiqueta(t, etiqueta, p) > 0}))

\* $ under re.MULTILINE after position e: the end of the text or a newline
FinDeLinea(t, e) == e = Len(t) \/ t[e + 1] = 10

\* the least of ps, 0 if there is none
PrimeroDe(ps) == IF ps = {} THEN 0 ELSE MinSet(ps)

\* group 1 of the leftmost match of  ^(\d+)$, or None
BuscarLineaNumero(t) ==
    EnteroEn(t, PrimeroDe({p \in 1..Len(t) :
                             /\ p = 1 \/ t[p - 1] = 10
                             /\ isdigit(t[p])
                             /\ FinDeLinea(t, FinDigitos(t, p))}))

\* "folio", "foja", "página"
patrones == << <<102, 111, 108, 105, 111>>, <<102, 111, 106, 97>>,
               <<112, 225, 103, 105, 110, 97>> >>

\* the first of the finds fs that is not None, or None
PrimerHallazgo(fs) ==
    IF \A k \in 1..Len(fs) : fs[k] = None THEN None
    ELSE fs[MinSet({k \in 1..Len(fs) : fs[k] # None})]

\* the loop over the four patterns: the first pattern that matches gives the
\* folio
folio_de(texto) ==
    PrimerHallazgo(<<BuscarEtiqueta(texto, patrones[1]),
                     BuscarEtiqueta(texto, patrones[2]),
                     BuscarEtiqueta(texto, patrones[3]),
                     BuscarLineaNumero(texto)>>)

(***************************************************************************)
(* The page texts of the model.                                            *)
(***************************************************************************)

\* "Expediente\nFolio: 1"
TextoFolio1 ==
    <<69, 120, 112, 101, 100, 105, 101, 110, 116, 101, 10,
      70, 111, 108, 105, 111, 58, 32, 49>>

\* "2\n" and 101 different letters
TextoLargoA == <<50, 10>> \o [k \in 1..101 |-> 19968 + k]

\* a space, and TextoLargoA with its last 8 letters replaced by other letters
TextoLargoB == <<32, 50, 10>> \o [k \in 1..101 |-> IF k <= 93 THEN 19968 + k ELSE 21000 + k]

\* 41 letters and 61 signs, none of them in the other texts
TextoRuido == [k \in 1..102 |-> IF k <= 41 THEN 22000 + k ELSE 9472 + k]

Textos == {<<>>, TextoFolio1, TextoLargoA, TextoLargoB, TextoRuido}

\* a page of the PDF: its text, or an extract_text() that raises
Paginas ==
    {[extrae |-> TRUE, texto |-> t] : t \in Textos}
      \cup {[extrae |-> FALSE, texto |-> <<>>]}

Documentos == UNION {[1..n -> Paginas] : n \in 0..MaxFolios}

\* documents of long pages only
PaginasLargas ==
    {[extrae |-> TRUE, texto |-> t] : t \in {TextoLargoA, TextoLargoB, TextoRuido}}

DocumentosSimilares == UNION {[1..n -> PaginasLargas] : n \in 0..MaxSimilares}

\* " \n ": only white space
TextoEspacios == <<32, 10, 32>>

\* 9 letters between white space
TextoNueve == <<32>> \o [k \in 1..9 |-> 23000 + k] \o <<10>>

\* 10 letters and a line end
TextoDiez == [k \in 1..10 |-> 23000 + k] \o <<10>>

TextosBreves == {<<>>, TextoEspacios, TextoNueve, TextoDiez}

\* documents of pages with little text or none
PaginasBreves ==
    {[extrae |-> TRUE, texto |-> t] : t \in TextosBreves}
      \cup {[extrae |-> FALSE, texto |-> <<>>]}

DocumentosBreves == UNION {[1..n -> PaginasBreves] : n \in 0..MaxFolios}

MaxPaginas == 20
MaxInicio == 2

RECURSIVE Decimal(_)
\* the decimal digits of n
Decimal(n) ==
    IF n < 10 THEN <<48 + n>> ELSE Decimal(n \div 10) \o <<48 + (n % 10)>>

\* "Expediente\nFolio: n"
TextoFoliado(n) ==
    <<69, 120, 112, 101, 100, 105, 101, 110, 116, 101, 10,
      70, 111, 108, 105, 111, 58, 32>> \o Decimal(n)

TextosFoliados == {TextoFoliado(n) : n \in 1..(MaxPaginas + 1)}

\* 6 letters and 4 signs: 60% of its characters are letters
TextoSesenta == [k \in 1..10 |-> IF k <= 6 THEN 24000 + k ELSE 9472 + k]

\* what a page in the damaged stretch of a document is: it declares the
\* folio of the next page, or it is TextoRuido, or TextoSesenta, or it has no
\* text, or its extraction raises
Defectos == {"otro_folio", "ruido", "sesenta", "vacia", "falla"}

\* page n of a foliated document
PaginaFoliada(n, defecto) ==
    IF defecto = "ninguno" THEN [extrae |-> TRUE, texto |-> TextoFoliado(n)]
    ELSE IF defecto = "otro_folio"
    THEN [extrae |-> TRUE, texto |-> TextoFoliado(n + 1)]
    ELSE IF defecto = "ruido" THEN [extrae |-> TRUE, texto |-> TextoRuido]
    ELSE IF defecto = "sesenta" THEN [extrae |-> TRUE, texto |-> TextoSesenta]
    ELSE IF defecto = "vacia" THEN [extrae |-> TRUE, texto |-> <<>>]
    ELSE [extrae |-> FALSE, texto |-> <<>>]

\* the documents of up to MaxPaginas pages, each with its folio, but for a
\* stretch lo..hi of pages (none when hi < lo) that all have one defect; the
\* stretch begins at one of the first MaxInicio pages
DocumentosFoliados ==
    {[n \in 1..total |->
        PaginaFoliada(n, IF lo <= n /\ n <= hi THEN defecto ELSE "ninguno")] :
       <<total, lo, hi, defecto>> \in
         {t \in (1..MaxPaginas) \X (1..MaxInicio) \X (0..MaxPaginas) \X Defectos :
            t[2] <= t[1] /\ t[3] <= t[1] /\ t[2] <= t[3] + 1}}

\* every text that a page of a document of the model gives
TextosDePaginas ==
    Textos \cup TextosBreves \cup TextosFoliados \cup {TextoSesenta}

(***************************************************************************)
(* What the checks compute from one page text is computed once for each    *)
(* text of the model, and looked up afterwards.                            *)
(***************************************************************************)
\* the value that the table tabla, a set of <<text, value>>, has for texto
DeTabla(tabla, texto) == (CHOOSE e \in tabla : e[1] = texto)[2]

TablaStrip == {<<t, strip_de(t)>> : t \in TextosDePaginas}

\* texto.strip()
strip(texto) == DeTabla(TablaStrip, texto)

TablaFolios == {<<t, folio_de(t)>> : t \in TextosDePaginas}

\* the folio that the loop over the patterns finds, or None
folio_encontrado(texto) == DeTabla(TablaFolios, texto)

caracteres_validos_de(texto) ==
    Cardinality({k \in 1..Len(texto) : isalnum(texto[k]) \/ isspace(texto[k])})

TablaValidos == {<<t, caracteres_validos_de(t)>> : t \in TextosDePaginas}

\* sum(c.isalnum() or c.isspace() for c in texto)
caracteres_validos(texto) == DeTabla(TablaValidos, texto)

TablaHashes == {<<t, md5_hexdigest(encode(t))>> : t \in TextosDePaginas}

\* hashlib.md5(texto.encode()).hexdigest()
hash_contenido(texto) == DeTabla(TablaHashes, texto)

\* the texts that secciones_texto can hold
TextosLargos == {strip_de(t) : t \in {u \in Textos : Len(strip_de(u)) > 100}}

TablaSimilitud ==
    {<<p, ratio(p[1], p[2])>> : p \in TextosLargos \X TextosLargos}

\* SequenceMatcher(None, texto1, texto2).ratio()
_calcular_similitud(texto1, texto2) == DeTabla(TablaSimilitud, <<texto1, texto2>>)

(***************************************************************************)
(* The verifier.                                                           *)
(***************************************************************************)
VARIABLES
    documento,      \* the PDF file at ruta_documento: its pages
    entorno,        \* what the LanguageTool capability does
    config,         \* self.config
    resultados,     \* self.resultados
    documento_pdf,  \* self.documento_pdf
    total_folios,   \* self.total_folios
    pc,             \* where ejecutar_verificacion_completa is
    reloj,          \* datetime.now()
    informes        \* what each call of ejecutar_verificacion_completa gave

vars == <<documento, entorno, config, resultados, documento_pdf, total_folios,
          pc, reloj, informes>>

Fraccion(n, d) == [num |-> n, den |-> d]

\* the elements of a set of numbers, in ascending order
RECURSIVE Ordenar(_)
Ordenar(S) ==
    IF S = {} THEN <<>> ELSE <<MinSet(S)>> \o Ordenar(S \ {MinSet(S)})

\* sum(1 for r in rs if r.estado == estado)
Contar(rs, estado) == Cardinality({k \in 1..Len(rs) : rs[k].estado = estado})

\* the dataclass, with its defaults
ResultadoVerificacion(tipo, estado, detalles, porcentaje, folios) ==
    [tipo_verificacion |-> tipo, estado |-> estado, detalles |-> detalles,
     porcentaje_cumplimiento |-> porcentaje, folios_afectados |-> folios]

_config_default ==
    [umbral_ilegibilidad |-> Fraccion(60, 100),
     umbral_plagio |-> Fraccion(85, 100),
     verificar_ortografia |-> TRUE]

Configuraciones ==
    {[_config_default EXCEPT !.verificar_ortografia = v] : v \in BOOLEAN}

\* LanguageTool: it is created or not, check() raises or gives `hallazgos'
\* matches for every text, close() raises or not
Entornos ==
    {[herramienta |-> "ok", hallazgos |-> h] : h \in {0, 6}}
      \cup {[herramienta |-> m, hallazgos |-> 0] :
              m \in {"no_crea", "falla_check", "falla_close"}}

\* PdfReader(ruta) raises, or len(reader.pages) raises, or both succeed
Cargas == {"ok", "falla_reader", "falla_pages"}

\* a new verifier for one of the documents docs
InitCon(docs) ==
    /\ documento \in docs
    /\ config \in Configuraciones
    /\ entorno \in IF config.verificar_ortografia
                   THEN Entornos
                   ELSE {[herramienta |-> "ok", hallazgos |-> 0]}
    /\ resultados = <<>>
    /\ documento_pdf = <<"None">>
    /\ total_folios = 0
    /\ pc = "reposo"
    /\ reloj = 0
    /\ informes = <<>>

Init == InitCon(Documentos)

InitSimilares == InitCon(DocumentosSimilares)

InitBreves == InitCon(DocumentosBreves)

\* a new verifier with the default configuration and a LanguageTool that
\* finds nothing, for one of the foliated documents
InitFoliados ==
    /\ documento \in DocumentosFoliados
    /\ config = _config_default
    /\ entorno = [herramienta |-> "ok", hallazgos |-> 0]
    /\ resultados = <<>>
    /\ documento_pdf = <<"None">>
    /\ total_folios = 0
    /\ pc = "reposo"
    /\ reloj = 0
    /\ informes = <<>>

\* self.documento_pdf.pages
pages == documento_pdf[2]

\* a call of ejecutar_verificacion_completa begins
ejecutar_verificacion_completa ==
    /\ pc = "reposo"
    /\ Len(informes) < MaxCorridas
    /\ pc' = "cargar"
    /\ reloj' = reloj + 1
    /\ UNCHANGED <<documento, entorno, config, resultados, documento_pdf,
                   total_folios, informes>>

\* an exception leaves ejecutar_verificacion_completa
Excepcion(clase, donde) ==
    /\ informes' = Append(informes, [clase |-> "excepcion", error |-> clase,
                                     en |-> donde, resultados |-> resultados])
    /\ pc' = "reposo"

\* as _cargar_documento, without the result that records the failure
_cargar_documento_sin_registro ==
    /\ pc = "cargar"
    /\ \E carga \in Cargas :
         /\ documento_pdf' = IF carga = "falla_reader" THEN documento_pdf
                             ELSE <<"PdfReader", documento>>
         /\ total_folios' = IF carga = "ok" THEN Len(documento) ELSE total_folios
         /\ pc' = IF carga = "ok" THEN "hojas_blanco" ELSE "error"
    /\ UNCHANGED <<documento, entorno, config, resultados, reloj, informes>>

_cargar_documento ==
    /\ pc = "cargar"
    /\ \E carga \in Cargas :
         /\ documento_pdf' = IF carga = "falla_reader" THEN documento_pdf
                             ELSE <<"PdfReader", documento>>
         /\ total_folios' = IF carga = "ok" THEN Len(documento) ELSE total_folios
         /\ resultados' =
              IF carga = "ok" THEN resultados
              ELSE Append(resultados, ResultadoVerificacion(
                     "Carga de Documento", "RECHAZADO",
                     << <<"Error al cargar documento:", "str(e)">> >>,
                     Fraccion(0, 1), <<>>))
         /\ pc' = IF carga = "ok" THEN "hojas_blanco" ELSE "error"
    /\ UNCHANGED <<documento, entorno, config, reloj, informes>>

_generar_resultado_error ==
    /\ pc = "error"
    /\ informes' = Append(informes,
                     [clase |-> "error",
                      fecha_verificacion |-> reloj,
                      error |-> "No se pudo procesar el documento",
                      resultados |-> resultados])
    /\ pc' = "reposo"
    /\ UNCHANGED <<documento, entorno, config, resultados, documento_pdf,
                   total_folios, reloj>>

(***************************************************************************)
(* 1.1 Blank pages.                                                        *)
(***************************************************************************)
\* as hojas_blanco, with <= 10 where < 10 belongs
hojas_blanco_hasta_diez(ps, total) ==
    Ordenar({n \in 1..total : ps[n].extrae /\ Len(strip(ps[n].texto)) <= 10})

\* the loop: a page whose extraction raises is only printed
hojas_blanco(ps, total) ==
    Ordenar({n \in 1..total : ps[n].extrae /\ Len(strip(ps[n].texto)) < 10})

\* as resultado_hojas_blanco, with RECHAZADO when every page is blank
resultado_hojas_blanco_rechaza(hb, total) ==
    ResultadoVerificacion(
      "1.1 Hojas en Blanco",
      IF Len(hb) = 0 THEN "APROBADO"
      ELSE IF Len(hb) = total THEN "RECHAZADO" ELSE "OBSERVADO",
      <<>>,
      Fraccion((total - Len(hb)) * 100, total),
      hb)

resultado_hojas_blanco(hb, total) ==
    ResultadoVerificacion(
      "1.1 Hojas en Blanco",
      IF Len(hb) = 0 THEN "APROBADO" ELSE "OBSERVADO",
      IF hb # <<>>
      THEN << <<"Se detectaron", Len(hb), "hojas en blanco">>,
              <<"Folios afectados:", hb>> >>
      ELSE << <<"No se detectaron hojas en blanco">> >>,
      Fraccion((total - Len(hb)) * 100, total),
      hb)

\* the division by self.total_folios raises ZeroDivisionError for a PDF
\* without pages, outside every try
_verificar_hojas_blanco ==
    /\ pc = "hojas_blanco"
    /\ IF total_folios = 0
       THEN /\ Excepcion("ZeroDivisionError", "_verificar_hojas_blanco")
            /\ UNCHANGED resultados
       ELSE /\ resultados' = Append(resultados,
                                    resultado_hojas_blanco(
                      hojas_blanco(pages, total_folios), total_folios))
            /\ pc' = "foliacion"
            /\ UNCHANGED informes
    /\ UNCHANGED <<documento, entorno, config, documento_pdf, total_folios, reloj>>

(***************************************************************************)
(* 1.2 Correlative foliation.                                              *)
(***************************************************************************)
\* the entries of folios_incorrectos for the pages malos
incorrectos_de(ps, malos) ==
    [k \in 1..Len(malos) |->
       [pagina |-> malos[k], esperado |-> malos[k],
        encontrado |-> folio_encontrado(ps[malos[k]].texto)]]

\* the loop: a page whose extraction raises is only printed
folios_incorrectos(ps, total) ==
    incorrectos_de(ps, Ordenar({n \in 1..total :
                       ps[n].extrae /\ folio_encontrado(ps[n].texto) # n}))

\* as resultado_foliacion, with < where <= belongs
resultado_foliacion_menor_estricto(fi, total) ==
    ResultadoVerificacion(
      "1.2 Foliacion Correlativa",
      IF Len(fi) = 0 THEN "APROBADO"
      ELSE IF Len(fi) * 10 < total THEN "OBSERVADO"
      ELSE "RECHAZADO",
      <<>>,
      Fraccion((total - Len(fi)) * 100, total),
      [k \in 1..Len(fi) |-> fi[k].pagina])

resultado_foliacion(fi, total) ==
    ResultadoVerificacion(
      "1.2 Foliacion Correlativa",
      IF Len(fi) = 0 THEN "APROBADO"
      ELSE IF Len(fi) * 10 <= total THEN "OBSERVADO"
      ELSE "RECHAZADO",
      << IF Len(fi) = 0
         THEN <<"La foliacion es correlativa y correcta">>
         ELSE IF Len(fi) * 10 <= total
         THEN <<"Se detectaron", Len(fi), "inconsistencias en la foliacion">>
         ELSE <<"Foliacion incorrecta en", Len(fi), "folios">> >>
        \o [k \in 1..Min(Len(fi), 10) |->
              <<"Pagina", fi[k].pagina, "esperado folio", fi[k].esperado,
                "encontrado", fi[k].encontrado>>]
        \o (IF Len(fi) > 10
            THEN << <<"... y", Len(fi) - 10, "inconsistencias mas">> >>
            ELSE <<>>),
      Fraccion((total - Len(fi)) * 100, total),
      [k \in 1..Len(fi) |-> fi[k].pagina])

_verificar_foliacion ==
    /\ pc = "foliacion"
    /\ resultados' = Append(resultados, resultado_foliacion(
                      folios_incorrectos(pages, total_folios), total_folios))
    /\ pc' = "duplicados"
    /\ UNCHANGED <<documento, entorno, config, documento_pdf, total_folios,
                   reloj, informes>>

(***************************************************************************)
(* 1.2 Duplicate pages.                                                    *)
(***************************************************************************)
RECURSIVE duplicados_ultimo_gana(_, _, _, _, _)
\* as duplicados, with the dict entry overwritten by every page, so that the
\* earlier page is the one reported
duplicados_ultimo_gana(ps, total, n, hashes_folios, dups) ==
    IF n > total THEN dups
    ELSE IF ~ps[n].extrae
    THEN duplicados_ultimo_gana(ps, total, n + 1, hashes_folios, dups)
    ELSE IF \E e \in hashes_folios : e[1] = hash_contenido(ps[n].texto)
    THEN duplicados_ultimo_gana(ps, total, n + 1, hashes_folios,
           Append(dups,
             [folio_original |-> n,
              folio_duplicado |->
                (CHOOSE e \in hashes_folios : e[1] = hash_contenido(ps[n].texto))[2]]))
    ELSE duplicados_ultimo_gana(ps, total, n + 1,
           hashes_folios \cup {<<hash_contenido(ps[n].texto), n>>}, dups)

RECURSIVE duplicados(_, _, _, _, _)
\* the loop from page n on; hashes_folios is the set of <<hash, page>> of the
\* dict, dups the list built so far
duplicados(ps, total, n, hashes_folios, dups) ==
    IF n > total THEN dups
    ELSE IF ~ps[n].extrae THEN duplicados(ps, total, n + 1, hashes_folios, dups)
    ELSE IF \E e \in hashes_folios : e[1] = hash_contenido(ps[n].texto)
    THEN duplicados(ps, total, n + 1, hashes_folios,
           Append(dups,
             [folio_original |->
                (CHOOSE e \in hashes_folios : e[1] = hash_contenido(ps[n].texto))[2],
              folio_duplicado |-> n]))
    ELSE duplicados(ps, total, n + 1,
           hashes_folios \cup {<<hash_contenido(ps[n].texto), n>>}, dups)

\* as resultado_folios_duplicados, with OBSERVADO where RECHAZADO belongs
resultado_folios_duplicados_observa(dups, total) ==
    ResultadoVerificacion(
      "1.2 Folios Duplicados",
      IF Len(dups) = 0 THEN "APROBADO" ELSE "OBSERVADO",
      <<>>,
      Fraccion((total - Len(dups)) * 100, total),
      [k \in 1..Len(dups) |-> dups[k].folio_duplicado])

resultado_folios_duplicados(dups, total) ==
    ResultadoVerificacion(
      "1.2 Folios Duplicados",
      IF Len(dups) = 0 THEN "APROBADO" ELSE "RECHAZADO",
      IF Len(dups) = 0
      THEN << <<"No se detectaron folios duplicados">> >>
      ELSE << <<"ALERTA: Se detectaron", Len(dups), "folios duplicados">> >>
             \o [k \in 1..Min(Len(dups), 10) |->
                   <<"Folio", dups[k].folio_duplicado, "es identico al folio",
                     dups[k].folio_original>>],
      Fraccion((total - Len(dups)) * 100, total),
      [k \in 1..Len(dups) |-> dups[k].folio_duplicado])

_verificar_folios_duplicados ==
    /\ pc = "duplicados"
    /\ resultados' = Append(resultados,
                            resultado_folios_duplicados(
                      duplicados(pages, total_folios, 1, {}, <<>>), total_folios))
    /\ pc' = "ilegibilidad"
    /\ UNCHANGED <<documento, entorno, config, documento_pdf, total_folios,
                   reloj, informes>>

(***************************************************************************)
(* 1.3 Legibility.                                                         *)
(***************************************************************************)
\* as EsIlegible, with <= where < belongs
EsIlegible_hasta_umbral(texto, umbral) ==
    /\ Len(texto) > 0
    /\ caracteres_validos(texto) * umbral.den <= umbral.num * Len(texto)

\* porcentaje_legible < umbral, both as fractions
EsIlegible(texto, umbral) ==
    /\ Len(texto) > 0
    /\ caracteres_validos(texto) * umbral.den < umbral.num * Len(texto)

\* the entries of folios_ilegibles for the pages malos
ilegibles_de(ps, malos) ==
    [k \in 1..Len(malos) |->
       IF ps[malos[k]].extrae
       THEN [folio |-> malos[k], error |-> FALSE,
             porcentaje |-> Fraccion(caracteres_validos(ps[malos[k]].texto) * 100,
                                     Len(ps[malos[k]].texto))]
       ELSE [folio |-> malos[k], error |-> TRUE, porcentaje |-> Fraccion(0, 1)]]

\* the loop: a page whose extraction raises is listed with 0%
folios_ilegibles(ps, total, umbral) ==
    ilegibles_de(ps, Ordenar({n \in 1..total :
                     ~ps[n].extrae \/ EsIlegible(ps[n].texto, umbral)}))

\* as resultado_ilegibilidad, with OBSERVADO up to 10% of the pages
resultado_ilegibilidad_diez_por_ciento(fi, total, umbral) ==
    ResultadoVerificacion(
      "1.3 Ilegibilidad de Informacion",
      IF Len(fi) = 0 THEN "APROBADO"
      ELSE IF Len(fi) * 10 <= total THEN "OBSERVADO"
      ELSE "RECHAZADO",
      <<>>,
      Fraccion((total - Len(fi)) * 100, total),
      [k \in 1..Len(fi) |-> fi[k].folio])

resultado_ilegibilidad(fi, total, umbral) ==
    ResultadoVerificacion(
      "1.3 Ilegibilidad de Informacion",
      IF Len(fi) = 0 THEN "APROBADO"
      ELSE IF Len(fi) * 100 <= total * 5 THEN "OBSERVADO"
      ELSE "RECHAZADO",
      << IF Len(fi) = 0
         THEN <<"Todos los folios superan el umbral de legibilidad", umbral>>
         ELSE IF Len(fi) * 100 <= total * 5
         THEN <<"Se detectaron", Len(fi), "folios con baja legibilidad">>
         ELSE <<"Cantidad significativa de folios ilegibles:", Len(fi)>> >>
        \o [k \in 1..Min(Len(fi), 10) |->
              <<"Folio", fi[k].folio, fi[k].porcentaje, "legible", umbral>>],
      Fraccion((total - Len(fi)) * 100, total),
      [k \in 1..Len(fi) |-> fi[k].folio])

_verificar_ilegibilidad ==
    /\ pc = "ilegibilidad"
    /\ resultados' = Append(resultados,
                            resultado_ilegibilidad(
                      folios_ilegibles(pages, total_folios,
                                       config.umbral_ilegibilidad),
                      total_folios, config.umbral_ilegibilidad))
    /\ pc' = "plagio"
    /\ UNCHANGED <<documento, entorno, config, documento_pdf, total_folios,
                   reloj, informes>>

(***************************************************************************)
(* 1.3 Internal similarity.                                                *)
(***************************************************************************)
\* the entries of secciones_texto for the pages largos
secciones_de(ps, largos) ==
    [k \in 1..Len(largos) |->
       [folio |-> largos[k], texto |-> strip(ps[largos[k]].texto)]]

\* the first loop: the pages with more than 100 characters after strip()
secciones_texto(ps, total) ==
    secciones_de(ps, Ordenar({n \in 1..total :
                     ps[n].extrae /\ Len(strip(ps[n].texto)) > 100}))

\* similitud >= umbral, both as fractions
Alcanza(similitud, umbral) ==
    similitud.num * umbral.den >= umbral.num * similitud.den

\* the inner loop for section i: the later sections j that reach the umbral,
\* in ascending order
similares_de(secciones, umbral, i) ==
    Ordenar({j \in (i + 1)..Len(secciones) :
               Alcanza(_calcular_similitud(secciones[i].texto, secciones[j].texto),
                       umbral)})

\* the entries appended for section i and the sections js
casos_de_fila(secciones, i, js) ==
    [k \in 1..Len(js) |->
       [folio_1 |-> secciones[i].folio, folio_2 |-> secciones[js[k]].folio,
        similitud |-> _calcular_similitud(secciones[i].texto,
                                          secciones[js[k]].texto)]]

RECURSIVE casos_desde(_, _, _)
\* the double loop from section i on
casos_desde(secciones, umbral, i) ==
    IF i > Len(secciones) THEN <<>>
    ELSE casos_de_fila(secciones, i, similares_de(secciones, umbral, i))
           \o casos_desde(secciones, umbral, i + 1)

\* as casos_plagio, without the pairs of the first section
casos_plagio_sin_la_primera(secciones, umbral) ==
    casos_desde(secciones, umbral, 2)

casos_plagio(secciones, umbral) == casos_desde(secciones, umbral, 1)

resultado_plagio(secciones, casos) ==
    ResultadoVerificacion(
      "1.3 Verificacion de Plagio",
      IF Len(casos) = 0 THEN "APROBADO" ELSE "OBSERVADO",
      IF Len(casos) = 0
      THEN << <<"No se detectaron casos de plagio interno">> >>
      ELSE << <<"Se detectaron", Len(casos), "casos de alta similitud">> >>
             \o [k \in 1..Min(Len(casos), 10) |->
                   <<"Folios", casos[k].folio_1, "y", casos[k].folio_2,
                     casos[k].similitud, "de similitud">>],
      Fraccion(100 * Max(Len(secciones), 1) - Len(casos) * 100,
               Max(Len(secciones), 1)),
      Ordenar({casos[k].folio_1 : k \in 1..Len(casos)}
                \cup {casos[k].folio_2 : k \in 1..Len(casos)}))

\* the two loops and the result, for the sections of the first loop
plagio_de(secciones, umbral) ==
    resultado_plagio(secciones, casos_plagio(secciones, umbral))

_verificar_plagio ==
    /\ pc = "plagio"
    /\ resultados' = Append(resultados,
                            plagio_de(secciones_texto(pages, total_folios),
                                      config.umbral_plagio))
    /\ pc' = IF config.verificar_ortografia THEN "ortografia" ELSE "preparar"
    /\ UNCHANGED <<documento, entorno, config, documento_pdf, total_folios,
                   reloj, informes>>

(***************************************************************************)
(* 1.3 Spelling.                                                           *)
(***************************************************************************)
\* the loop over the first 50 pages: the pages where tool.check found
\* something, with the number of matches
\* as errores_por_folio, with num_pagina where num_pagina + 1 belongs
errores_por_folio_base_cero(ps, total, ent) ==
    LET con == Ordenar({n \in 1..Min(total, 50) :
                          /\ ps[n].extrae
                          /\ Len(strip(ps[n].texto)) > 0
                          /\ ent.herramienta # "falla_check"
                          /\ ent.hallazgos > 0})
    IN  [k \in 1..Len(con) |->
           [folio |-> con[k] - 1, cantidad_errores |-> ent.hallazgos]]

errores_por_folio(ps, total, ent) ==
    LET con == Ordenar({n \in 1..Min(total, 50) :
                          /\ ps[n].extrae
                          /\ Len(strip(ps[n].texto)) > 0
                          /\ ent.herramienta # "falla_check"
                          /\ ent.hallazgos > 0})
    IN  [k \in 1..Len(con) |-> [folio |-> con[k], cantidad_errores |-> ent.hallazgos]]

RECURSIVE total_errores(_)
total_errores(epf) ==
    IF epf = <<>> THEN 0 ELSE Head(epf).cantidad_errores + total_errores(Tail(epf))

resultado_ortografia(ps, total, ent) ==
    IF ent.herramienta \in {"no_crea", "falla_close"}
    THEN ResultadoVerificacion(
           "1.3 Verificacion Ortografica", "NO PROCESADO",
           << <<"No se pudo completar la verificacion:", "str(e)">> >>,
           Fraccion(0, 1), <<>>)
    ELSE LET epf == errores_por_folio(ps, total, ent)
             te  == total_errores(epf)
         IN  ResultadoVerificacion(
               "1.3 Verificacion Ortografica",
               IF te = 0 THEN "APROBADO"
               ELSE IF te <= total * 5 THEN "OBSERVADO"
               ELSE "RECHAZADO",
               << IF te = 0
                  THEN <<"No se detectaron errores ortograficos significativos">>
                  ELSE IF te <= total * 5
                  THEN <<"Se detectaron", te, "errores ortograficos en el documento">>
                  ELSE <<"Cantidad elevada de errores ortograficos:", te>> >>
                 \o [k \in 1..Min(Len(epf), 10) |->
                       <<"Folio", epf[k].folio, epf[k].cantidad_errores, "errores">>],
               Fraccion(Max(0, 100 * total - te), total),
               [k \in 1..Len(epf) |-> epf[k].folio])

_verificar_ortografia ==
    /\ pc = "ortografia"
    /\ resultados' = Append(resultados,
                            resultado_ortografia(pages, total_folios, entorno))
    /\ pc' = "preparar"
    /\ UNCHANGED <<documento, entorno, config, documento_pdf, total_folios,
                   reloj, informes>>

(***************************************************************************)
(* The report.                                                             *)
(***************************************************************************)
\* as _determinar_estado_global, with the two tests in the other order
_determinar_estado_global_observados_primero(rs) ==
    IF Contar(rs, "OBSERVADO") > 0 THEN "ADMISIBLE CON OBSERVACIONES"
    ELSE IF Contar(rs, "RECHAZADO") > 0 THEN "NO ADMISIBLE"
    ELSE "ADMISIBLE"

_determinar_estado_global(rs) ==
    LET rechazados == Contar(rs, "RECHAZADO")
        observados == Contar(rs, "OBSERVADO")
    IN  IF rechazados > 0 THEN "NO ADMISIBLE"
        ELSE IF observados > 0 THEN "ADMISIBLE CON OBSERVACIONES"
        ELSE "ADMISIBLE"

\* as informe, with a global status that takes every result that is not
\* APROBADO or RECHAZADO for an observation
informe_no_procesado_observa(rs, total, fecha) ==
    [clase |-> "informe",
     fecha_verificacion |-> fecha,
     total_folios |-> total,
     resumen |-> [total_verificaciones |-> Len(rs),
                  aprobados |-> Contar(rs, "APROBADO"),
                  observados |-> Contar(rs, "OBSERVADO"),
                  rechazados |-> Contar(rs, "RECHAZADO"),
                  estado_global |->
                      IF Contar(rs, "RECHAZADO") > 0 THEN "NO ADMISIBLE"
                      ELSE IF Len(rs) - Contar(rs, "APROBADO") > 0
                      THEN "ADMISIBLE CON OBSERVACIONES"
                      ELSE "ADMISIBLE"],
     resultados |-> rs]

informe(rs, total, fecha) ==
    [clase |-> "informe",
     fecha_verificacion |-> fecha,
     total_folios |-> total,
     resumen |-> [total_verificaciones |-> Len(rs),
                  aprobados |-> Contar(rs, "APROBADO"),
                  observados |-> Contar(rs, "OBSERVADO"),
                  rechazados |-> Contar(rs, "RECHAZADO"),
                  estado_global |-> _determinar_estado_global(rs)],
     resultados |-> rs]

_preparar_resultados ==
    /\ pc = "preparar"
    /\ informes' = Append(informes, informe(resultados, total_folios, reloj))
    /\ pc' = "reposo"
    /\ UNCHANGED <<documento, entorno, config, resultados, documento_pdf,
                   total_folios, reloj>>

Next ==
    \/ ejecutar_verificacion_completa
    \/ _cargar_documento
    \/ _generar_resultado_error
    \/ _verificar_hojas_blanco
    \/ _verificar_foliacion
    \/ _verificar_folios_duplicados
    \/ _verificar_ilegibilidad
    \/ _verificar_plagio
    \/ _verificar_ortografia
    \/ _preparar_resultados

Spec == Init /\ [][Next]_vars

\* the same verifier on documents of long pages
SpecSimilares == InitSimilares /\ [][Next]_vars

\* the same verifier on documents of pages with little text
SpecBreves == InitBreves /\ [][Next]_vars

\* the same verifier on foliated documents of many pages
SpecFoliados == InitFoliados /\ [][Next]_vars

(***************************************************************************)
(* The aggregation alone, on any list of results.                          *)
(***************************************************************************)
Estados == {"APROBADO", "OBSERVADO", "RECHAZADO", "NO PROCESADO"}

ListasDeResultados ==
    UNION {[1..n -> {ResultadoVerificacion("verificacion", e, <<>>, Fraccion(0, 1), <<>>)
                       : e \in Estados}] : n \in 0..MaxResultados}

\* a verifier that has loaded a document of one page, with any list of
\* results, when _preparar_resultados is called
InitAgregador ==
    /\ documento = << [extrae |-> TRUE, texto |-> TextoFolio1] >>
    /\ config = _config_default
    /\ entorno = [herramienta |-> "ok", hallazgos |-> 0]
    /\ resultados \in ListasDeResultados
    /\ documento_pdf = <<"PdfReader", documento>>
    /\ total_folios = 1
    /\ pc = "preparar"
    /\ reloj = 1
    /\ informes = <<>>

SpecAgregador == InitAgregador /\ [][_preparar_resultados]_vars

(***************************************************************************)
(* _calcular_similitud alone, called with any two texts.                   *)
(***************************************************************************)
MaxLargo == 3

Letras == {97, 98, 99}

\* 200 times "a": every character of it is popular for the matcher
TextoRepetido == [k \in 1..200 |-> 97]

\* "b", 150 times "a", "b", 100 times "a"
TextoMixto == [k \in 1..252 |-> IF k \in {1, 152} THEN 98 ELSE 97]

\* the texts over Letras of up to MaxLargo characters, and the two long ones
Cadenas ==
    UNION {[1..n -> Letras] : n \in 0..MaxLargo} \cup {TextoRepetido, TextoMixto}

\* a new verifier, for a document that is never loaded
InitSimilitud ==
    /\ documento = <<>>
    /\ config = _config_default
    /\ entorno = [herramienta |-> "ok", hallazgos |-> 0]
    /\ resultados = <<>>
    /\ documento_pdf = <<"None">>
    /\ total_folios = 0
    /\ pc = "reposo"
    /\ reloj = 0
    /\ informes = <<>>

\* one call verificador._calcular_similitud(texto1, texto2), and what it
\* returns
llamar_calcular_similitud ==
    /\ pc = "reposo"
    /\ informes = <<>>
    /\ \E texto1 \in Cadenas, texto2 \in Cadenas :
           informes' = << [clase |-> "similitud", texto1 |-> texto1,
                           texto2 |-> texto2,
                           similitud |-> ratio(texto1, texto2)] >>
    /\ UNCHANGED <<documento, entorno, config, resultados, documento_pdf,
                   total_folios, pc, reloj>>

SpecSimilitud == InitSimilitud /\ [][llamar_calcular_similitud]_vars


(***************************************************************************)
(* Properties.                                                             *)
(***************************************************************************)
Hay(rs, estado) == \E k \in 1..Len(rs) : rs[k].estado = estado

\* the rule of the aggregator, stated on the list
EstadoSegunRegla(rs) ==
    IF Hay(rs, "RECHAZADO") THEN "NO ADMISIBLE"
    ELSE IF Hay(rs, "OBSERVADO") THEN "ADMISIBLE CON OBSERVACIONES"
    ELSE "ADMISIBLE"

EsInforme(k) == informes[k].clase = "informe"

\* self.resultados when call k began
ResultadosAntes(k) == IF k = 1 THEN <<>> ELSE informes[k - 1].resultados

\* the results that call k added
ResultadosDe(k) ==
    SubSeq(informes[k].resultados, Len(ResultadosAntes(k)) + 1,
           Len(informes[k].resultados))

Afectados(r) == Rango(r.folios_afectados)

TipoBlanco == "1.1 Hojas en Blanco"
TipoDuplicados == "1.2 Folios Duplicados"
TipoIlegibilidad == "1.3 Ilegibilidad de Informacion"
TipoPlagio == "1.3 Verificacion de Plagio"
TipoOrtografia == "1.3 Verificacion Ortografica"

\* C1: in every report the global status is NO ADMISIBLE if some result is
\* RECHAZADO, however many are APROBADO; otherwise ADMISIBLE CON
\* OBSERVACIONES if some result is OBSERVADO; otherwise ADMISIBLE.
C1_PrioridadEstadoGlobal ==
    \A k \in 1..Len(informes) :
        EsInforme(k) =>
            informes[k].resumen.estado_global = EstadoSegunRegla(informes[k].resultados)

\* a report of one RECHAZADO, one OBSERVADO and four APROBADO is NO ADMISIBLE
C1_Testigo ==
    \E k \in 1..Len(informes) :
        /\ EsInforme(k)
        /\ Contar(informes[k].resultados, "RECHAZADO") = 1
        /\ Contar(informes[k].resultados, "OBSERVADO") = 1
        /\ Contar(informes[k].resultados, "APROBADO") = 4
        /\ informes[k].resumen.estado_global = "NO ADMISIBLE"

\* a page that extracts and has the text of an earlier page that extracts
Repetida(n) ==
    /\ documento[n].extrae
    /\ \E m \in 1..(n - 1) :
           documento[m].extrae /\ documento[m].texto = documento[n].texto

\* a page that extracts and has the text of no earlier page
PrimeraAparicion(n) == documento[n].extrae /\ ~Repetida(n)

\* C2: in every result of the duplicate check, every page whose text occurs
\* on an earlier page is affected, the first page with a text never is, and
\* the status is APROBADO without affected pages and RECHAZADO with them.
C2_Duplicados ==
    \A k \in 1..Len(resultados) :
        resultados[k].tipo_verificacion = TipoDuplicados =>
            /\ \A n \in 1..Len(documento) :
                   /\ Repetida(n) => n \in Afectados(resultados[k])
                   /\ PrimeraAparicion(n) => n \notin Afectados(resultados[k])
            /\ resultados[k].estado =
                   IF Afectados(resultados[k]) = {} THEN "APROBADO" ELSE "RECHAZADO"

\* pages 1 and 3 have the same text and page 2 another: only 3 is affected
C2_Testigo ==
    /\ Len(documento) = 3
    /\ documento[1].extrae /\ documento[2].extrae /\ documento[3].extrae
    /\ documento[1].texto = documento[3].texto
    /\ documento[1].texto # documento[2].texto
    /\ \E k \in 1..Len(resultados) :
           /\ resultados[k].tipo_verificacion = TipoDuplicados
           /\ resultados[k].folios_afectados = <<3>>
           /\ resultados[k].estado = "RECHAZADO"

\* C3: every call whose load succeeded returns a report: no exception of a
\* check leaves ejecutar_verificacion_completa.
C3_AislamientoDeFallos ==
    \A k \in 1..Len(informes) : informes[k].clase # "excepcion"

\* C4: a page whose extraction raises is among the affected pages of the
\* blank-page result and of the legibility result, there with 0%.
C4_ExtraccionFallida ==
    \A k \in 1..Len(resultados) : \A n \in 1..Len(documento) :
        ~documento[n].extrae =>
            /\ resultados[k].tipo_verificacion = TipoBlanco =>
                   n \in Afectados(resultados[k])
            /\ resultados[k].tipo_verificacion = TipoIlegibilidad =>
                   /\ n \in Afectados(resultados[k])
                   /\ \E d \in 2..Len(resultados[k].detalles) :
                          /\ resultados[k].detalles[d][2] = n
                          /\ resultados[k].detalles[d][3].num = 0

\* C5 as it was stated: the report of a failed load has no results.
C5_SinResultados ==
    \A k \in 1..Len(informes) :
        informes[k].clase = "error" => informes[k].resultados = <<>>

\* C5: the report of a failed load has no summary, and its results are those
\* the verifier had when the call began, followed by one RECHAZADO result
\* "Carga de Documento": no check has added a result.
C5_InformeDeError ==
    \A k \in 1..Len(informes) :
        informes[k].clase = "error" =>
            /\ "resumen" \notin DOMAIN informes[k]
            /\ Len(informes[k].resultados) = Len(ResultadosAntes(k)) + 1
            /\ SubSeq(informes[k].resultados, 1, Len(ResultadosAntes(k)))
                   = ResultadosAntes(k)
            /\ ResultadosDe(k)[1].tipo_verificacion = "Carga de Documento"
            /\ ResultadosDe(k)[1].estado = "RECHAZADO"
            /\ ResultadosDe(k)[1].folios_afectados = <<>>

\* a load fails on a verifier that has already given a report
C5_Testigo ==
    /\ Len(informes) = 2
    /\ EsInforme(1)
    /\ informes[2].clase = "error"
    /\ Len(informes[2].resultados) = Len(informes[1].resultados) + 1

\* C6: the affected pages of every result are page numbers of the document.
C6_FoliosAfectados ==
    \A k \in 1..Len(resultados) :
        Afectados(resultados[k]) \subseteq 1..Len(documento)

\* a report of six results, five of them with affected pages
C6_Testigo ==
    \E k \in 1..Len(informes) :
        /\ EsInforme(k)
        /\ Len(ResultadosDe(k)) = 6
        /\ Cardinality({j \in 1..6 : ResultadosDe(k)[j].folios_afectados # <<>>}) >= 5

\* C7: the compliance percentage of every result lies between 0 and 100.
C7_PorcentajeEnRango ==
    \A k \in 1..Len(resultados) :
        /\ 0 <= resultados[k].porcentaje_cumplimiento.num
        /\ resultados[k].porcentaje_cumplimiento.num
               <= 100 * resultados[k].porcentaje_cumplimiento.den

SinNoProcesados(rs) == SelectSeq(rs, LAMBDA r : r.estado # "NO PROCESADO")

\* C8: the global status of a report is the status that the rule gives for
\* its results without the NO PROCESADO ones; results that are all APROBADO
\* but for one NO PROCESADO give ADMISIBLE.
C8_NoProcesadoExcluido ==
    \A k \in 1..Len(informes) :
        EsInforme(k) =>
            /\ informes[k].resumen.estado_global
                   = EstadoSegunRegla(SinNoProcesados(informes[k].resultados))
            /\ (/\ Contar(informes[k].resultados, "NO PROCESADO") = 1
                /\ Contar(informes[k].resultados, "APROBADO")
                       = Len(informes[k].resultados) - 1)
                   => informes[k].resumen.estado_global = "ADMISIBLE"

\* five APROBADO and one NO PROCESADO give ADMISIBLE
C8_Testigo ==
    \E k \in 1..Len(informes) :
        /\ EsInforme(k)
        /\ Contar(informes[k].resultados, "NO PROCESADO") = 1
        /\ Contar(informes[k].resultados, "APROBADO") = 5
        /\ informes[k].resumen.estado_global = "ADMISIBLE"

\* C9: two reports of the same verifier, for the same document, thresholds
\* and tool, have the same results, the same counts and the same status.
C9_RepeticionDeterminista ==
    \A j, k \in 1..Len(informes) :
        (EsInforme(j) /\ EsInforme(k)) =>
            /\ informes[j].resultados = informes[k].resultados
            /\ informes[j].resumen = informes[k].resumen

\* the capability fails in this run: LanguageTool is not created, or close()
\* raises, or check() raises and is called for some page with text
HerramientaFalla ==
    \/ entorno.herramienta \in {"no_crea", "falla_close"}
    \/ /\ entorno.herramienta = "falla_check"
       /\ \E n \in 1..Len(documento) :
              documento[n].extrae /\ Len(strip(documento[n].texto)) > 0

\* C10: when LanguageTool cannot be created, or check() or close() raise,
\* the spelling result is NO PROCESADO with a message, and the call adds the
\* six results of the checks and returns a report (for a document that has
\* pages: without pages the call ends as C3 tells).
C10_HerramientaFallida ==
    \A k \in 1..Len(informes) :
        (/\ config.verificar_ortografia
         /\ HerramientaFalla
         /\ Len(documento) > 0
         /\ informes[k].clase # "error") =>
            /\ EsInforme(k)
            /\ Len(ResultadosDe(k)) = 6
            /\ ResultadosDe(k)[6].tipo_verificacion = TipoOrtografia
            /\ ResultadosDe(k)[6].estado = "NO PROCESADO"
            /\ ResultadosDe(k)[6].detalles # <<>>
            /\ Contar(ResultadosDe(k), "NO PROCESADO") = 1

\* the same value, both as fractions
Igual(x, y) == x.num * y.den = y.num * x.den

\* C11: the similarity of two texts does not depend on their order: every
\* call of _calcular_similitud returns what the call with the two texts
\* exchanged returns.
C11_SimilitudSimetrica ==
    \A k \in 1..Len(informes) :
        informes[k].clase = "similitud" =>
            Igual(informes[k].similitud,
                  ratio(informes[k].texto2, informes[k].texto1))

\* the thresholds from 0 to 1, in hundredths
UmbralesHastaUno == {Fraccion(n, 100) : n \in 0..100}

\* C12: every call of _calcular_similitud with the same non-empty text twice
\* returns 1.0; so for a text of more than 100 characters, as the pages that
\* are compared have after strip(), the value reaches every threshold up
\* to 1 and the pair is a similarity case.
C12_SimilitudConsigoMismo ==
    \A k \in 1..Len(informes) :
        (/\ informes[k].clase = "similitud"
         /\ informes[k].texto1 = informes[k].texto2
         /\ informes[k].texto1 # <<>>) =>
            /\ Igual(informes[k].similitud, Fraccion(1, 1))
            /\ Len(informes[k].texto1) > 100 =>
                   \A umbral \in UmbralesHastaUno :
                       Alcanza(informes[k].similitud, umbral)

\* a text of more than 200 characters, popular and not, compared with itself
C12_Testigo ==
    /\ Len(informes) = 1
    /\ informes[1].clase = "similitud"
    /\ informes[1].texto1 = TextoMixto
    /\ informes[1].texto2 = TextoMixto
    /\ Igual(informes[1].similitud, Fraccion(1, 1))

\* the document of C13: three pages that extract, the first and the third
\* with the same non-empty text, the second with the empty text
UnaVaciaEntreIguales ==
    /\ Len(documento) = 3
    /\ documento[1].extrae /\ documento[2].extrae /\ documento[3].extrae
    /\ documento[1].texto = documento[3].texto
    /\ documento[1].texto # <<>>
    /\ documento[2].texto = <<>>

\* report k has page 2 as the only blank page, OBSERVADO, page 3 as the only
\* duplicate, RECHAZADO, and is NO ADMISIBLE
BlancaDosDuplicadaTres(k) ==
    /\ ResultadosDe(k)[1].tipo_verificacion = TipoBlanco
    /\ ResultadosDe(k)[1].folios_afectados = <<2>>
    /\ ResultadosDe(k)[1].estado = "OBSERVADO"
    /\ ResultadosDe(k)[3].tipo_verificacion = TipoDuplicados
    /\ ResultadosDe(k)[3].folios_afectados = <<3>>
    /\ ResultadosDe(k)[3].estado = "RECHAZADO"
    /\ informes[k].resumen.estado_global = "NO ADMISIBLE"

\* C13 as it was stated: for every document of three pages of which the
\* first and the third have the same non-empty text and the second is empty,
\* the blank-page result is OBSERVADO with page 2 alone, the duplicate result
\* RECHAZADO with page 3 alone, and the report NO ADMISIBLE.
C13_TextoNoVacio ==
    \A k \in 1..Len(informes) :
        (EsInforme(k) /\ UnaVaciaEntreIguales) => BlancaDosDuplicadaTres(k)

\* C13: the same, for documents whose first and third page have a text of 10
\* characters or more after strip().
C13_UnaVaciaEntreIguales ==
    \A k \in 1..Len(informes) :
        (/\ EsInforme(k)
         /\ UnaVaciaEntreIguales
         /\ Len(strip(documento[1].texto)) >= 10) => BlancaDosDuplicadaTres(k)

\* the report of TextoDiez, the empty text, TextoDiez
C13_Testigo ==
    /\ UnaVaciaEntreIguales
    /\ documento[1].texto = TextoDiez
    /\ Len(informes) >= 1
    /\ EsInforme(1)
    /\ BlancaDosDuplicadaTres(1)

TipoFoliacion == "1.2 Foliacion Correlativa"

\* the status that a check with the thresholds APROBADO at none and
\* OBSERVADO up to `por_ciento' per cent of the pages gives for n pages of
\* total
EstadoPorUmbral(n, total, por_ciento) ==
    IF n = 0 THEN "APROBADO"
    ELSE IF n * 100 <= total * por_ciento THEN "OBSERVADO"
    ELSE "RECHAZADO"

\* C14: in every result of the foliation check, a page that extracts is
\* affected exactly when it declares no folio or a folio that is not its
\* position counted from 1; the list of affected pages holds every such page
\* once, however many they are; the status is APROBADO with none, OBSERVADO
\* with up to 10% of the pages of the document, and RECHAZADO with more.
C14_Foliacion ==
    \A k \in 1..Len(resultados) :
        resultados[k].tipo_verificacion = TipoFoliacion =>
            /\ \A n \in 1..Len(documento) :
                   documento[n].extrae =>
                       (n \in Afectados(resultados[k])
                          <=> \/ folio_encontrado(documento[n].texto) = None
                              \/ folio_encontrado(documento[n].texto) # n)
            /\ Len(resultados[k].folios_afectados)
                   = Cardinality(Afectados(resultados[k]))
            /\ resultados[k].estado
                   = EstadoPorUmbral(Len(resultados[k].folios_afectados),
                                     Len(documento), 10)

\* 20 pages of which two declare another folio: OBSERVADO
C14_Testigo ==
    /\ Len(documento) = 20
    /\ documento[2].texto = TextoFoliado(3)
    /\ documento[3].texto = TextoFoliado(4)
    /\ \E k \in 1..Len(resultados) :
           /\ resultados[k].tipo_verificacion = TipoFoliacion
           /\ resultados[k].folios_afectados = <<2, 3>>
           /\ resultados[k].estado = "OBSERVADO"

\* C15: in every result of the blank-page check, a page that extracts is
\* affected exactly when its text has fewer than 10 characters after strip();
\* the status is APROBADO without affected pages and OBSERVADO with them,
\* never RECHAZADO; the percentage is (total - blank) / total * 100.
C15_HojasEnBlanco ==
    \A k \in 1..Len(resultados) :
        resultados[k].tipo_verificacion = TipoBlanco =>
            /\ \A n \in 1..Len(documento) :
                   documento[n].extrae =>
                       (n \in Afectados(resultados[k])
                          <=> Len(strip_de(documento[n].texto)) < 10)
            /\ Len(resultados[k].folios_afectados)
                   = Cardinality(Afectados(resultados[k]))
            /\ resultados[k].estado
                   = IF Afectados(resultados[k]) = {} THEN "APROBADO" ELSE "OBSERVADO"
            /\ Igual(resultados[k].porcentaje_cumplimiento,
                     Fraccion((Len(documento) - Cardinality(Afectados(resultados[k])))
                                * 100,
                              Len(documento)))

\* three pages of 9, of 0 and of 9 characters after strip(): all three are
\* blank and the result is OBSERVADO with 0%
C15_Testigo ==
    /\ Len(documento) = 3
    /\ documento[1] = [extrae |-> TRUE, texto |-> TextoNueve]
    /\ documento[2] = [extrae |-> TRUE, texto |-> TextoEspacios]
    /\ documento[3] = [extrae |-> TRUE, texto |-> TextoNueve]
    /\ \E k \in 1..Len(resultados) :
           /\ resultados[k].tipo_verificacion = TipoBlanco
           /\ resultados[k].folios_afectados = <<1, 2, 3>>
           /\ resultados[k].estado = "OBSERVADO"
           /\ resultados[k].porcentaje_cumplimiento.num = 0

\* the place of page n in the list of affected pages of r, or 0
Lugar(r, n) ==
    IF n \in Afectados(r)
    THEN CHOOSE j \in 1..Len(r.folios_afectados) : r.folios_afectados[j] = n
    ELSE 0

\* C16: in every result of the legibility check, a page that extracts is
\* affected exactly when its text is not empty and the share of its
\* characters that are alphanumeric or white space is below the threshold;
\* a page whose extraction raises is affected, and its detail line shows 0%;
\* the status is APROBADO with no affected page, OBSERVADO with up to 5% of
\* the pages of the document, and RECHAZADO with more.
C16_Ilegibilidad ==
    \A k \in 1..Len(resultados) :
        resultados[k].tipo_verificacion = TipoIlegibilidad =>
            /\ \A n \in 1..Len(documento) :
                   IF documento[n].extrae
                   THEN n \in Afectados(resultados[k])
                          <=> /\ documento[n].texto # <<>>
                              /\ caracteres_validos(documento[n].texto)
                                    * config.umbral_ilegibilidad.den
                                  < config.umbral_ilegibilidad.num
                                      * Len(documento[n].texto)
                   ELSE /\ n \in Afectados(resultados[k])
                        /\ Lugar(resultados[k], n) <= 10 =>
                              /\ resultados[k].detalles[Lugar(resultados[k], n) + 1][2] = n
                              /\ resultados[k].detalles[Lugar(resultados[k], n) + 1][3].num = 0
            /\ Len(resultados[k].folios_afectados)
                   = Cardinality(Afectados(resultados[k]))
            /\ resultados[k].estado
                   = EstadoPorUmbral(Len(resultados[k].folios_afectados),
                                     Len(documento), 5)

\* 20 pages of which one is TextoRuido, with 40% of legible characters:
\* OBSERVADO
C16_Testigo ==
    /\ Len(documento) = 20
    /\ documento[2].texto = TextoRuido
    /\ \E k \in 1..Len(resultados) :
           /\ resultados[k].tipo_verificacion = TipoIlegibilidad
           /\ resultados[k].folios_afectados = <<2>>
           /\ resultados[k].estado = "OBSERVADO"

\* the pages that are compared: they extract and have more than 100
\* characters after strip()
Elegibles ==
    {n \in 1..Len(documento) :
       documento[n].extrae /\ Len(strip(documento[n].texto)) > 100}

\* the pairs of the pages `largas', the earlier page first, whose similarity
\* reaches the threshold
ParesSimilares(largas) ==
    {p \in largas \X largas :
       /\ p[1] < p[2]
       /\ Alcanza(_calcular_similitud(strip(documento[p[1]].texto),
                                       strip(documento[p[2]].texto)),
                   config.umbral_plagio)}

\* the result r of the similarity check has the pairs `pares' as its cases
CasosSon(r, pares) ==
    /\ Afectados(r) = {p[1] : p \in pares} \cup {p[2] : p \in pares}
    /\ Len(r.folios_afectados) = Cardinality(Afectados(r))
    /\ r.estado = IF pares = {} THEN "APROBADO" ELSE "OBSERVADO"
    /\ pares # {} => r.detalles[1][2] = Cardinality(pares)

\* C17: in every result of the similarity check, the cases are the pairs of
\* pages with more than 100 characters after strip() whose similarity is the
\* threshold or more, each pair counted once; the affected pages are the
\* pages of those pairs, each once; the status is APROBADO without such a
\* pair and OBSERVADO with one, never RECHAZADO.
C17_Plagio ==
    \A k \in 1..Len(resultados) :
        resultados[k].tipo_verificacion = TipoPlagio =>
            CasosSon(resultados[k], ParesSimilares(Elegibles))

\* pages 1 and 3 are long and similar, page 2 is short: one case
C17_Testigo ==
    /\ Len(documento) = 3
    /\ documento[1] = [extrae |-> TRUE, texto |-> TextoLargoA]
    /\ documento[2] = [extrae |-> TRUE, texto |-> TextoFolio1]
    /\ documento[3] = [extrae |-> TRUE, texto |-> TextoLargoB]
    /\ \E k \in 1..Len(resultados) :
           /\ resultados[k].tipo_verificacion = TipoPlagio
           /\ resultados[k].folios_afectados = <<1, 3>>
           /\ resultados[k].estado = "OBSERVADO"
           /\ resultados[k].detalles[1][2] = 1

\* C18: in every result of the duplicate check with duplicates, the detail
\* messages after the first name the first 10 duplicates, each with its
\* original, and with more than 10 duplicates one more message gives the
\* number of the others.
C18_MensajesDeDuplicados ==
    \A k \in 1..Len(resultados) :
        (/\ resultados[k].tipo_verificacion = TipoDuplicados
         /\ resultados[k].folios_afectados # <<>>) =>
            LET n == Len(resultados[k].folios_afectados)
                detalles == resultados[k].detalles
            IN  /\ \A j \in 1..Min(n, 10) :
                       detalles[j + 1][2] = resultados[k].folios_afectados[j]
                /\ Len(detalles) = 1 + Min(n, 10) + (IF n > 10 THEN 1 ELSE 0)
                /\ n > 10 => (n - 10) \in Rango(detalles[Len(detalles)])

\* the counts of the summary of report k agree with its list of results
ConteosCoherentes(k) ==
    LET resumen == informes[k].resumen
        rs == informes[k].resultados
    IN  /\ resumen.total_verificaciones = Len(rs)
        /\ resumen.aprobados + resumen.observados + resumen.rechazados
               = resumen.total_verificaciones - Contar(rs, "NO PROCESADO")
        /\ resumen.estado_global = "NO ADMISIBLE" <=> resumen.rechazados > 0
        /\ resumen.estado_global = "ADMISIBLE"
               <=> (resumen.rechazados = 0 /\ resumen.observados = 0)

\* C19: in every report of a document that was loaded, the summary counts
\* agree with the list of results, and total_verificaciones is the number of
\* checks of a run: 5 without the spelling check, 6 with it.
C19_ConteosDelResumen ==
    \A k \in 1..Len(informes) :
        EsInforme(k) =>
            /\ ConteosCoherentes(k)
            /\ informes[k].resumen.total_verificaciones
                   = IF config.verificar_ortografia THEN 6 ELSE 5

\* the pages that extract a text of fewer than 10 characters after strip()
Blancas ==
    {n \in 1..Len(documento) :
       documento[n].extrae /\ Len(strip(documento[n].texto)) < 10}

\* pages i < j extract the same blank text
BlancasIguales(i, j) ==
    /\ i < j
    /\ {i, j} \subseteq Blancas
    /\ documento[i].texto = documento[j].texto

\* report k has the blank pages i and j affected in an OBSERVADO blank-page
\* result, j affected in a RECHAZADO duplicate result, and is NO ADMISIBLE
DuplicadaRechaza(k, rs, i, j) ==
    /\ rs[1].tipo_verificacion = TipoBlanco
    /\ rs[1].estado = "OBSERVADO"
    /\ {i, j} \subseteq Afectados(rs[1])
    /\ rs[3].tipo_verificacion = TipoDuplicados
    /\ rs[3].estado = "RECHAZADO"
    /\ j \in Afectados(rs[3])
    /\ informes[k].resumen.estado_global = "NO ADMISIBLE"

\* C20: every report of a document with two or more pages that extract the
\* same blank text, the empty text among them, has a RECHAZADO duplicate
\* result with the later of those pages affected and is NO ADMISIBLE, while
\* its blank-page result, with those pages affected, is OBSERVADO.
C20_BlancasDuplicadas ==
    \A k \in 1..Len(informes) :
        EsInforme(k) =>
            LET blancas == Blancas
                rs == ResultadosDe(k)
            IN  \A i \in blancas : \A j \in blancas :
                    (i < j /\ documento[i].texto = documento[j].texto) =>
                        DuplicadaRechaza(k, rs, i, j)

\* 20 pages of which two are empty: the duplicate result is the only
\* RECHAZADO of the report, which is NO ADMISIBLE
C20_Testigo ==
    /\ Len(documento) = 20
    /\ BlancasIguales(2, 3)
    /\ Len(informes) >= 1
    /\ EsInforme(1)
    /\ Contar(informes[1].resultados, "RECHAZADO") = 1
    /\ informes[1].resultados[1].estado = "OBSERVADO"
    /\ informes[1].resultados[3].estado = "RECHAZADO"
    /\ informes[1].resumen.estado_global = "NO ADMISIBLE"

\* C21: OBSERVADO is out of reach for short documents: the foliation result
\* of a document of fewer than 10 pages is APROBADO or RECHAZADO, and so is
\* the legibility result of a document of fewer than 20 pages.
C21_SinObservadoEnCortos ==
    \A k \in 1..Len(resultados) :
        /\ (/\ resultados[k].tipo_verificacion = TipoFoliacion
             /\ Len(documento) < 10)
               => resultados[k].estado \in {"APROBADO", "RECHAZADO"}
        /\ (/\ resultados[k].tipo_verificacion = TipoIlegibilidad
             /\ Len(documento) < 20)
               => resultados[k].estado \in {"APROBADO", "RECHAZADO"}

\* 9 pages of which one alone is TextoRuido: that one page makes the
\* foliation result and the legibility result RECHAZADO
C21_Testigo ==
    /\ Len(documento) = 9
    /\ \E k \in 1..Len(resultados) :
           /\ resultados[k].tipo_verificacion = TipoFoliacion
           /\ resultados[k].folios_afectados = <<2>>
           /\ resultados[k].estado = "RECHAZADO"
    /\ \E k \in 1..Len(resultados) :
           /\ resultados[k].tipo_verificacion = TipoIlegibilidad
           /\ resultados[k].folios_afectados = <<2>>
           /\ resultados[k].estado = "RECHAZADO"

=============================================================================
